---- MODULE Spec2Model ----
(***************************************************************************)
(* Model of backend/engine.py (GameEngine) and backend/config.py (Config). *)
(*                                                                         *)
(* Numbers.  Python floats are modelled as exact fixed-point integers:     *)
(*   - money (house_net, ante * bust_multiplier) in units of 1/Unit,       *)
(*   - bust_multiplier in units of 1/Unit,                                 *)
(*   - a draw of random.random() in hundredths (0..99 stands for [0,1)),   *)
(*   - the returned house_net in cents, the returned house_edge in 1e-4.   *)
(* round(x, n) is modelled as round-half-to-even on the exact value.       *)
(*                                                                         *)
(* Threads.  A call of simulate() or run_round() is a sequence of steps of *)
(* one thread; `self.house_net -= x` and `+= x` are a read (Load) followed *)
(* by a write (Store), as in the byte code.                                *)
(***************************************************************************)
EXTENDS Integers, Sequences, FiniteSets, TLC

VARIABLES config, rng, eng, house_net, pc, op, i, j, r, tmp,
          draws, base, dirty, house_edge, result, last, calls

vars == <<config, rng, eng, house_net, pc, op, i, j, r, tmp,
          draws, base, dirty, house_edge, result, last, calls>>

\* ---------------------------------------------------------------- bounds
MaxPlayers == 2
MaxRounds == 2
MaxCalls == 2
MaxConcTurns == 1

\* ------------------------------------------------------- number encoding
Unit == 10 ^ 5
CentStep == Unit \div 100
EdgeStep == Unit \div 10000

\* n / d rounded to the nearest integer, ties to even (d > 0).
RoundDivPos(n, d) ==
    LET q == n \div d
        m == n % d
    IN  IF 2 * m < d THEN q
        ELSE IF 2 * m > d THEN q + 1
        ELSE IF q % 2 = 0 THEN q ELSE q + 1

RoundDiv(n, d) == IF d > 0 THEN RoundDivPos(n, d) ELSE RoundDivPos(-n, -d)

\* round(x, 2) of a money amount, in cents.
Round2(x) == RoundDiv(x, CentStep)

\* round(num / den, 4) of a money amount over a whole number, in 1e-4.
Round4(num, den) == RoundDiv(num, den * EdgeStep)

\* range(n + 1) for range(n): one iteration too many.
RangeInclusive(n) == IF n >= 0 THEN n + 1 ELSE 0

\* range(n): the number of iterations of `for _ in range(n)`.
Range(n) == IF n > 0 THEN n ELSE 0

\* ------------------------------------------------------------ Config
Labels == {"ST", "FL", "FH", "SF", "RF"}

tube_default ==
    [l \in Labels |->
        CASE l = "ST" -> 5 [] l = "FL" -> 10 [] l = "FH" -> 15
          [] l = "SF" -> 20 [] l = "RF" -> 25]

Antes == {-5, 0, 5}
BustMultipliers == {-2 * Unit, Unit, Unit + 43}

Config(p, a, n, bm) ==
    [players |-> p, ante |-> a, rounds |-> n,
     target_edge |-> 5, min_edge |-> 3, max_edge |-> 7,
     bust_multiplier |-> bm, tube_initial |-> tube_default]

Configs ==
    {Config(p, a, n, bm) : p \in -1 .. MaxPlayers, a \in Antes,
                           n \in -1 .. MaxRounds, bm \in BustMultipliers}

\* ------------------------------------------------------ random source
DrawSeq == <<0, 46, 47, 50, 94, 95, 99>>
Draws == {DrawSeq[k] : k \in 1 .. Len(DrawSeq)}
WinBelow == 47
HouseBelow == 95

\* A random source is the set of values random.random() may return: a
\* substitute that always returns one value, or a generator over one value
\* of each band, or over the two values at one of the thresholds.
Sources == {{d} : d \in Draws} \cup {{0, 50, 99}, {46, 47}, {94, 95}}

\* ------------------------------------------------------------ engine
Threads == {1, 2}
Engines == {1, 2}

NoResult == [house_net |-> 0, house_edge |-> 0]
NoEdge == [err |-> FALSE, num |-> 0, den |-> 1]

\* The draws of one call: how many times each value was drawn.
NoDraws == [d \in Draws |-> 0]
Record(b, d) == [b EXCEPT ![d] = b[d] + 1]

\* The sum of f over the draw values.
SumOver(f) ==
    LET S[k \in 0 .. Len(DrawSeq)] ==
            IF k = 0 THEN 0 ELSE f[DrawSeq[k]] + S[k - 1]
    IN  S[Len(DrawSeq)]

Count(b) == SumOver(b)

\* Payout with the bust paid on top of the ante.
PayoutBustBonus(d, cfg) ==
    IF d < WinBelow THEN -(cfg.ante * Unit)
    ELSE IF d < HouseBelow THEN cfg.ante * Unit
    ELSE cfg.ante * Unit + cfg.ante * cfg.bust_multiplier

\* Payout with the bust adding bust_multiplier, the ante forgotten.
PayoutBustFlat(d, cfg) ==
    IF d < WinBelow THEN -(cfg.ante * Unit)
    ELSE IF d < HouseBelow THEN cfg.ante * Unit
    ELSE cfg.bust_multiplier

\* Payout with <= for < at the two thresholds.
PayoutLE(d, cfg) ==
    IF d <= WinBelow THEN -(cfg.ante * Unit)
    ELSE IF d <= HouseBelow THEN cfg.ante * Unit
    ELSE cfg.ante * cfg.bust_multiplier

\* The update one player-turn applies to house_net for draw d.
Payout(d, cfg) ==
    IF d < WinBelow THEN -(cfg.ante * Unit)
    ELSE IF d < HouseBelow THEN cfg.ante * Unit
    ELSE cfg.ante * cfg.bust_multiplier

\* house_net as a class attribute: one accumulator for every engine.
TargetShared(t) == 1

\* The accumulator a thread writes to.
Target(t) == eng[t]

\* total_input without the ante.
TotalInputNoAnte(cfg) == cfg.rounds * cfg.players

\* total_input of simulate().
TotalInput(cfg) == cfg.rounds * cfg.players * cfg.ante

\* num / den, kept as a fraction; err stands for ZeroDivisionError.
Divide(num, den) ==
    IF den = 0 THEN [err |-> TRUE, num |-> 0, den |-> 1]
    ELSE [err |-> FALSE, num |-> num, den |-> den]

\* house_edge without the guard on total_input.
EdgeOfUnguarded(net, total) == Divide(net, total)

\* house_edge of simulate(), before rounding.
EdgeOf(net, total) ==
    IF total > 0 THEN Divide(net, total)
    ELSE NoEdge

TypeOK ==
    /\ config \in Configs
    /\ rng \in Sources
    /\ eng \in [Threads -> Engines]
    /\ house_net \in [Engines -> Int]
    /\ pc \in [Threads -> {"idle", "reset", "round", "turn", "load",
                           "store", "edge", "ret", "error"}]
    /\ op \in [Threads -> {"none", "simulate", "run_round"}]
    /\ calls \in 0 .. MaxCalls

InitWith(engs, srcs, cfgs) ==
    /\ config \in cfgs
    /\ rng \in srcs
    /\ eng \in engs
    /\ house_net = [e \in Engines |-> 0]
    /\ pc = [t \in Threads |-> "idle"]
    /\ op = [t \in Threads |-> "none"]
    /\ i = [t \in Threads |-> 0]
    /\ j = [t \in Threads |-> 0]
    /\ r = [t \in Threads |-> 0]
    /\ tmp = [t \in Threads |-> 0]
    /\ draws = [t \in Threads |-> NoDraws]
    /\ base = [t \in Threads |-> 0]
    /\ dirty = [t \in Threads |-> FALSE]
    /\ house_edge = [t \in Threads |-> NoEdge]
    /\ result = [t \in Threads |-> NoResult]
    /\ last = [t \in Threads |-> "none"]
    /\ calls = 0

Init == InitWith({[t \in Threads |-> 1]}, Sources, Configs)

\* A caller invokes simulate().
CallSimulate(t) ==
    /\ pc[t] = "idle"
    /\ calls < MaxCalls
    /\ calls' = calls + 1
    /\ pc' = [pc EXCEPT ![t] = "reset"]
    /\ op' = [op EXCEPT ![t] = "simulate"]
    /\ draws' = [draws EXCEPT ![t] = NoDraws]
    /\ base' = [base EXCEPT ![t] = house_net[Target(t)]]
    /\ dirty' = [dirty EXCEPT ![t] = house_net[Target(t)] # 0]
    /\ result' = [result EXCEPT ![t] = NoResult]
    /\ UNCHANGED <<config, rng, eng, house_net, i, j, r, tmp, house_edge, last>>

\* A caller invokes run_round() directly.
CallRunRound(t) ==
    /\ pc[t] = "idle"
    /\ calls < MaxCalls
    /\ calls' = calls + 1
    /\ pc' = [pc EXCEPT ![t] = "turn"]
    /\ op' = [op EXCEPT ![t] = "run_round"]
    /\ j' = [j EXCEPT ![t] = Range(config.players)]
    /\ draws' = [draws EXCEPT ![t] = NoDraws]
    /\ base' = [base EXCEPT ![t] = house_net[Target(t)]]
    /\ dirty' = [dirty EXCEPT ![t] = house_net[Target(t)] # 0]
    /\ result' = [result EXCEPT ![t] = NoResult]
    /\ UNCHANGED <<config, rng, eng, house_net, i, r, tmp, house_edge, last>>

\* simulate() without `self.house_net = 0.0`.
ResetKeeps(t) ==
    /\ pc[t] = "reset"
    /\ i' = [i EXCEPT ![t] = Range(config.rounds)]
    /\ pc' = [pc EXCEPT ![t] = "round"]
    /\ UNCHANGED <<config, rng, eng, house_net, op, j, r, tmp, draws, base,
                   dirty, house_edge, result, last, calls>>

\* self.house_net = 0.0, and the rounds loop is set up.
Reset(t) ==
    /\ pc[t] = "reset"
    /\ house_net' = [house_net EXCEPT ![Target(t)] = 0]
    /\ base' = [base EXCEPT ![t] = 0]
    /\ i' = [i EXCEPT ![t] = Range(config.rounds)]
    /\ pc' = [pc EXCEPT ![t] = "round"]
    /\ UNCHANGED <<config, rng, eng, op, j, r, tmp, draws, dirty, house_edge,
                   result, last, calls>>

\* The rounds loop counting self.config.rounds down instead of iterating
\* over a range.
RoundLoopCountsDown(t) ==
    /\ pc[t] = "round"
    /\ IF config.rounds > 0
       THEN /\ config' = [config EXCEPT !.rounds = config.rounds - 1]
            /\ j' = [j EXCEPT ![t] = Range(config.players)]
            /\ pc' = [pc EXCEPT ![t] = "turn"]
       ELSE /\ pc' = [pc EXCEPT ![t] = "edge"]
            /\ UNCHANGED <<config, j>>
    /\ UNCHANGED <<rng, eng, house_net, op, i, r, tmp, draws, base,
                   dirty, house_edge, result, last, calls>>

\* for _ in range(self.config.rounds): self.run_round()
RoundLoop(t) ==
    /\ pc[t] = "round"
    /\ IF i[t] > 0
       THEN /\ i' = [i EXCEPT ![t] = i[t] - 1]
            /\ j' = [j EXCEPT ![t] = Range(config.players)]
            /\ pc' = [pc EXCEPT ![t] = "turn"]
       ELSE /\ pc' = [pc EXCEPT ![t] = "edge"]
            /\ UNCHANGED <<i, j>>
    /\ UNCHANGED <<config, rng, eng, house_net, op, r, tmp, draws, base,
                   dirty, house_edge, result, last, calls>>

\* for _ in range(self.config.players): r = random.random()
Draw(t) ==
    /\ pc[t] = "turn"
    /\ j[t] > 0
    /\ j' = [j EXCEPT ![t] = j[t] - 1]
    /\ \E d \in rng :
          /\ r' = [r EXCEPT ![t] = d]
          /\ draws' = [draws EXCEPT ![t] = Record(draws[t], d)]
    /\ pc' = [pc EXCEPT ![t] = "load"]
    /\ UNCHANGED <<config, rng, eng, house_net, op, i, tmp, base,
                   dirty, house_edge, result, last, calls>>

\* The players loop is exhausted: run_round() returns, to simulate() or to
\* the caller.
RunRoundReturn(t) ==
    /\ pc[t] = "turn"
    /\ j[t] = 0
    /\ IF op[t] = "simulate"
       THEN /\ pc' = [pc EXCEPT ![t] = "round"]
            /\ UNCHANGED <<op, last>>
       ELSE /\ pc' = [pc EXCEPT ![t] = "idle"]
            /\ op' = [op EXCEPT ![t] = "none"]
            /\ last' = [last EXCEPT ![t] = "run_round"]
    /\ UNCHANGED <<config, rng, eng, house_net, i, j, r, tmp, draws, base,
                   dirty, house_edge, result, calls>>

\* the read of self.house_net in `self.house_net -= ...` / `+= ...`
Load(t) ==
    /\ pc[t] = "load"
    /\ tmp' = [tmp EXCEPT ![t] = house_net[Target(t)]]
    /\ pc' = [pc EXCEPT ![t] = "store"]
    /\ UNCHANGED <<config, rng, eng, house_net, op, i, j, r, draws, base,
                   dirty, house_edge, result, last, calls>>

\* the write of self.house_net in `self.house_net -= ...` / `+= ...`; the
\* draw and the value read are not used again.
Store(t) ==
    /\ pc[t] = "store"
    /\ house_net' = [house_net EXCEPT ![Target(t)] = tmp[t] + Payout(r[t], config)]
    /\ pc' = [pc EXCEPT ![t] = "turn"]
    /\ UNCHANGED <<config, rng, eng, op, i, j, r, tmp, draws, base,
                   dirty, house_edge, result, last, calls>>

\* total_input = ...; house_edge = self.house_net / total_input if ... else 0.0
ComputeEdge(t) ==
    /\ pc[t] = "edge"
    /\ LET e == EdgeOf(house_net[Target(t)], TotalInput(config))
       IN  /\ house_edge' = [house_edge EXCEPT ![t] = e]
           /\ pc' = [pc EXCEPT ![t] = IF e.err THEN "error" ELSE "ret"]
    /\ UNCHANGED <<config, rng, eng, house_net, op, i, j, r, tmp, draws,
                   base, dirty, result, last, calls>>

\* return {"house_net": round(self.house_net, 2), "house_edge": round(house_edge, 4)}
Return(t) ==
    /\ pc[t] = "ret"
    /\ result' = [result EXCEPT ![t] =
                    [house_net |-> Round2(house_net[Target(t)]),
                     house_edge |-> Round4(house_edge[t].num, house_edge[t].den)]]
    /\ pc' = [pc EXCEPT ![t] = "idle"]
    /\ op' = [op EXCEPT ![t] = "none"]
    /\ last' = [last EXCEPT ![t] = "simulate"]
    /\ house_edge' = [house_edge EXCEPT ![t] = NoEdge]
    /\ UNCHANGED <<config, rng, eng, house_net, i, j, r, tmp, draws, base,
                   dirty, calls>>

Step(t) ==
    \/ CallSimulate(t)
    \/ CallRunRound(t)
    \/ Reset(t)
    \/ RoundLoop(t)
    \/ Draw(t)
    \/ RunRoundReturn(t)
    \/ Load(t)
    \/ Store(t)
    \/ ComputeEdge(t)
    \/ Return(t)

\* One caller, one engine: calls follow one another.
Next == Step(1)

Spec == Init /\ [][Next]_vars

\* The interpreter keeps executing the call it is in.
LiveConfigs == {c \in Configs : c.bust_multiplier = Unit}

InitLive == InitWith({[t \in Threads |-> 1]}, {{0, 50, 99}}, LiveConfigs)

FairSpec == InitLive /\ [][Next]_vars /\ WF_vars(Next)

\* Two callers, on one engine or on an engine each.
ConcConfigs ==
    {c \in Configs : /\ c.players >= 0 /\ c.rounds >= 0
                      /\ c.players * c.rounds <= MaxConcTurns
                      /\ c.ante = 5 /\ c.bust_multiplier = Unit}

InitConc ==
    InitWith({[t \in Threads |-> 1], [t \in Threads |-> t]},
             {{0, 50}}, ConcConfigs)

NextConc == \E t \in Threads : Step(t)

SpecConc == InitConc /\ [][NextConc]_vars

\* ------------------------------------------------------------ claims

Abs(x) == IF x < 0 THEN -x ELSE x
Max(a, b) == IF a >= b THEN a ELSE b

\* simulate() has returned to thread t: result[t] is what it returned and
\* draws[t] are the values it drew.
Done(t) == pc[t] = "idle" /\ last[t] = "simulate"

\* The accumulator of a call that draws b, run alone from the reset.
Expected(cfg, b) == SumOver([d \in Draws |-> b[d] * Payout(d, cfg)])

ExpectedResult(cfg, b) ==
    LET e == EdgeOf(Expected(cfg, b), TotalInput(cfg))
    IN  [house_net |-> Round2(Expected(cfg, b)),
         house_edge |-> Round4(e.num, e.den)]

\* C1: whenever rounds * players * ante is nonzero, negative included, the
\* house_edge simulate() returns is house_net / (rounds * players * ante),
\* rounded to 4 places.
C1_EdgeIsRatio ==
    \A t \in Threads :
        (Done(t) /\ TotalInput(config) # 0) =>
            result[t].house_edge =
                RoundDiv(house_net[eng[t]], TotalInput(config) * EdgeStep)

\* The bound of C2 as the claim states it, in units of 1/Unit.
ClaimedBound(cfg) ==
    cfg.rounds * cfg.players * cfg.ante * Max(Unit, cfg.bust_multiplier)

\* C2 as claimed: for any Configuration the returned house_net satisfies
\* |house_net| <= rounds * players * ante * max(1, bust_multiplier).
C2_BoundAsClaimed ==
    \A t \in Threads :
        Done(t) => Abs(result[t].house_net) * CentStep <= ClaimedBound(config)

\* The bound of C2 with the iteration counts, |ante| and |bust_multiplier|.
AmendedBound(cfg) ==
    Max(0, cfg.rounds) * Max(0, cfg.players) * Abs(cfg.ante)
        * Max(Unit, Abs(cfg.bust_multiplier))

\* C2 amended: when simulate() returns, the accumulator satisfies
\* |house_net| <= max(0, rounds) * max(0, players) * |ante| * max(1, |bust_multiplier|)
\* and the returned, rounded house_net exceeds that bound by at most 0.005.
C2_Bound ==
    \A t \in Threads :
        Done(t) =>
            /\ Abs(house_net[eng[t]]) <= AmendedBound(config)
            /\ 2 * Abs(result[t].house_net) * CentStep
                  <= 2 * AmendedBound(config) + CentStep

C2_Witness ==
    \E t \in Threads :
        /\ Done(t)
        /\ config.bust_multiplier < -Unit
        /\ draws[t][99] > 0
        /\ Abs(result[t].house_net) * CentStep > ClaimedBound(config)

\* C3: when rounds = 0, players = 0 or ante = 0, simulate() returns
\* house_net = 0.0 and house_edge = 0.0, whatever the draws and the
\* bust_multiplier.
C3_ZeroWager ==
    \A t \in Threads :
        (Done(t) /\ (config.rounds = 0 \/ config.players = 0 \/ config.ante = 0))
            => result[t] = [house_net |-> 0, house_edge |-> 0]

C3_Witness ==
    \E t \in Threads :
        /\ Done(t)
        /\ config.ante = 0
        /\ config.bust_multiplier # Unit
        /\ draws[t][95] > 0
        /\ dirty[t] = FALSE
        /\ result[t] = [house_net |-> 0, house_edge |-> 0]

\* C4: the result of simulate() is determined by the Configuration and the
\* values drawn during the call alone: the accumulator restarts from 0, so
\* the value house_net held before the call has no influence.
C4_Repeatable ==
    \A t \in Threads : Done(t) => result[t] = ExpectedResult(config, draws[t])

C4_Witness ==
    \E t \in Threads :
        /\ Done(t)
        /\ dirty[t]
        /\ Count(draws[t]) > 0
        /\ result[t].house_net # 0

\* C5: with a random source that always returns the same value d and
\* rounds, players, ante > 0: d in the player-win band gives
\* house_net = -(rounds * players * ante) and house_edge = -1.0; d in the
\* house-win band, or in the bust band with bust_multiplier = 1.0, gives
\* house_net = +(rounds * players * ante) and house_edge = 1.0.
C5_FixedSource ==
    \A t \in Threads : \A d \in Draws :
        (/\ Done(t)
         /\ rng = {d}
         /\ config.rounds > 0 /\ config.players > 0 /\ config.ante > 0)
        => LET wagered == config.rounds * config.players * config.ante
           IN  /\ d < 47 =>
                     result[t] = [house_net |-> -(wagered * 100),
                                  house_edge |-> -10000]
               /\ ((d >= 47 /\ d < 95) \/ (d >= 95 /\ config.bust_multiplier = Unit)) =>
                     result[t] = [house_net |-> wagered * 100,
                                  house_edge |-> 10000]

C5_Witness ==
    \E t \in Threads :
        /\ Done(t)
        /\ rng = {0}
        /\ config.players = 2 /\ config.ante = 5 /\ config.rounds = MaxRounds
        /\ result[t] = [house_net |-> -(MaxRounds * 2 * 5 * 100),
                        house_edge |-> -10000]

\* C6: simulate() never raises: no call reaches the error state, and every
\* call that has returned has returned two numbers.
C6_NoError ==
    \A t \in Threads :
        /\ pc[t] # "error"
        /\ house_edge[t].err = FALSE
        /\ Done(t) => result[t] \in [house_net : Int, house_edge : Int]

C6_Witness ==
    \E t \in Threads :
        /\ Done(t)
        /\ config.ante < 0
        /\ config.bust_multiplier < 0
        /\ config.rounds > 0 /\ config.players > 0
        /\ draws[t][99] > 0

\* C7: no step of the engine changes the Configuration.
C7_ConfigReadOnly == [][config' = config]_vars

C7_Witness ==
    \E t \in Threads :
        /\ Done(t)
        /\ calls = MaxCalls
        /\ Count(draws[t]) = MaxRounds * MaxPlayers
        /\ house_net[eng[t]] # 0
        /\ config.tube_initial = tube_default

\* The update of one player-turn as C8 states it.
ClaimDelta(d, cfg) ==
    CASE d < 47 -> -(cfg.ante * Unit)
      [] d >= 47 /\ d < 95 -> cfg.ante * Unit
      [] d >= 95 -> cfg.ante * cfg.bust_multiplier

ClaimSum(cfg, b) == SumOver([d \in Draws |-> b[d] * ClaimDelta(d, cfg)])

\* C8: every draw is followed by exactly one update of house_net, the one
\* its band selects (r < 0.47: -ante; 0.47 <= r < 0.95: +ante; r >= 0.95:
\* +ante * bust_multiplier): between turns the accumulator is the value the
\* call started from plus the updates of the values drawn so far, and while
\* a turn is under way the update of its draw alone is outstanding.
C8_OneUpdatePerDraw ==
    \A t \in Threads :
        (op[t] # "none" \/ last[t] # "none") =>
            house_net[eng[t]] =
                IF pc[t] \in {"load", "store"}
                THEN base[t] + ClaimSum(config, draws[t]) - ClaimDelta(r[t], config)
                ELSE base[t] + ClaimSum(config, draws[t])

C8_Witness ==
    \E t \in Threads :
        /\ pc[t] = "turn"
        /\ draws[t][94] > 0
        /\ draws[t][95] > 0
        /\ config.ante = 5
        /\ config.bust_multiplier = -2 * Unit
        /\ house_net[eng[t]] = base[t] + 5 * Unit - 10 * Unit

\* The number of draws of one simulate() call as C9 states it.
ClaimedDraws(cfg) ==
    IF cfg.rounds >= 0 /\ cfg.players >= 0 THEN cfg.rounds * cfg.players ELSE 0

\* C9: every simulate() call terminates, and has then drawn exactly
\* rounds * players values (none when either is zero or negative); it never
\* draws more on the way.
C9_Terminates ==
    /\ [](\A t \in Threads :
            /\ op[t] = "simulate" => Count(draws[t]) <= ClaimedDraws(config)
            /\ Done(t) => Count(draws[t]) = ClaimedDraws(config))
    /\ \A t \in Threads : (pc[t] = "reset") ~> Done(t)

C9_Witness ==
    \E t \in Threads :
        /\ Done(t)
        /\ config.rounds = MaxRounds /\ config.players = MaxPlayers
        /\ Count(draws[t]) = MaxRounds * MaxPlayers

\* C10: simulate() calls on independent engines never interfere: each
\* returns what it returns when run alone on its draws.  (On one engine
\* they race: C10_Race is reachable.)
C10_IndependentEngines ==
    \A t \in Threads :
        (eng[1] # eng[2] /\ Done(t)) =>
            result[t] = ExpectedResult(config, draws[t])

\* Two simulate() calls on one engine have returned, and one of them has
\* returned what neither returns when run alone on its draws.
C10_Race ==
    /\ eng[1] = eng[2]
    /\ Done(1) /\ Done(2)
    /\ \E t \in Threads :
          result[t] \notin {ExpectedResult(config, draws[1]),
                            ExpectedResult(config, draws[2])}

====
